---- MODULE Spec2Model ----
(***************************************************************************)
(* QueryVerse backend (src/backend.py): the /upload handler upload_file    *)
(* and DataManager.create_raw_table.                                       *)
(*                                                                         *)
(* Text is modelled as a sequence of one-character strings, so that the    *)
(* string operations of the code (split, replace, join, strip, lower) are  *)
(* computed the way Python computes them.                                  *)
(***************************************************************************)
EXTENDS Naturals, Sequences, FiniteSets, TLC

VARIABLES
    pc,            \* position of the handler in upload_file / create_raw_table
    filename,      \* file.filename of the request being served
    content,       \* body of the upload: a sequence of lines (text)
    file_ext,      \* upload_file: file_ext
    strat,         \* upload_file: loop index i of the strategy loop (0-based)
    tried,         \* history: <<strategy number, raised?>> of every pd.read_csv of the loop
    manualRan,     \* history: the manual line-repair path was entered
    lines,         \* manual path: lines read back from the saved file
    expected_cols, \* manual path: expected_cols
    cleaned_lines, \* manual path: cleaned_lines
    idx,           \* manual path: position of the for loop in lines[1:]
    df,            \* upload_file: df (None or a data frame)
    table_name,    \* create_raw_table: table_name
    disk,          \* files of UPLOAD_DIR: path -> lines
    tables,        \* relations of schema raw: table name -> data frame
    conn,          \* the connection create_raw_table opened in this call
    response,      \* outcome of the call
    events,        \* history: what this call has done so far
    before,        \* history: tables when the call started
    suspended      \* event loop: the frames of the handlers waiting at an await

vars == <<pc, filename, content, file_ext, strat, tried, manualRan, lines,
          expected_cols, cleaned_lines, idx, df, table_name, disk, tables,
          conn, response, events, before, suspended>>

\* Python's None for a text or a frame not yet assigned; a frame that is
\* assigned is held as the one-element sequence <<frame>>
None == <<>>

\* no response yet
NoResponse == "none"

-----------------------------------------------------------------------------
(* Bounds of the inputs *)

\* file names are concatenations of at most MaxNameParts tokens
MaxNameParts == 3
\* a data line of a repaired file has at most MaxFields fields
MaxFields == 4
\* a repaired file has at most MaxDataLines data lines
MaxDataLines == 3

-----------------------------------------------------------------------------
(* Python str operations on sequences of characters *)

UpperToLower ==
    [c \in {"A", "B", "C", "S", "V", "X", "L", "F", "N", "R"} |->
        CASE c = "A" -> "a" [] c = "B" -> "b" [] c = "C" -> "c"
          [] c = "S" -> "s" [] c = "V" -> "v" [] c = "X" -> "x"
          [] c = "L" -> "l" [] c = "F" -> "f" [] c = "N" -> "n"
          [] c = "R" -> "r"]

\* str.lower(), one character
LowerChar(c) == IF c \in DOMAIN UpperToLower THEN UpperToLower[c] ELSE c

\* str.lower()
Lower(s) == [k \in 1..Len(s) |-> LowerChar(s[k])]

AlnumChars == {"a", "b", "c", "s", "v", "x", "l", "t", "r", "w",
               "A", "B", "C", "S", "V", "X", "L",
               "0", "1", "2", "3", "4"}

\* c.isalnum()
IsAlnum(c) == c \in AlnumChars

Whitespace == {" ", "\n"}

StartsWith(s, p) == Len(s) >= Len(p) /\ SubSeq(s, 1, Len(p)) = p

EndsWith(s, p) ==
    Len(s) >= Len(p) /\ SubSeq(s, Len(s) - Len(p) + 1, Len(s)) = p

RECURSIVE Replace(_, _, _)
\* s.replace(old, new): every non-overlapping occurrence, left to right
Replace(s, old, new) ==
    IF s = <<>> THEN <<>>
    ELSE IF StartsWith(s, old)
         THEN new \o Replace(SubSeq(s, Len(old) + 1, Len(s)), old, new)
         ELSE <<Head(s)>> \o Replace(Tail(s), old, new)

RECURSIVE Split(_, _)
\* s.split(c) for a one-character separator: always at least one part
Split(s, c) ==
    IF \A k \in 1..Len(s) : s[k] # c THEN <<s>>
    ELSE LET k == CHOOSE j \in 1..Len(s) :
                     s[j] = c /\ \A m \in 1..(j - 1) : s[m] # c
         IN  <<SubSeq(s, 1, k - 1)>> \o Split(SubSeq(s, k + 1, Len(s)), c)

RECURSIVE Join(_, _)
\* sep.join(parts)
Join(parts, sep) ==
    IF parts = <<>> THEN <<>>
    ELSE IF Len(parts) = 1 THEN parts[1]
         ELSE parts[1] \o sep \o Join(Tail(parts), sep)

RECURSIVE LStrip(_)
LStrip(s) ==
    IF s # <<>> /\ Head(s) \in Whitespace THEN LStrip(Tail(s)) ELSE s

RECURSIVE RStrip(_)
RStrip(s) ==
    IF s # <<>> /\ s[Len(s)] \in Whitespace
    THEN RStrip(SubSeq(s, 1, Len(s) - 1)) ELSE s

\* s.strip()
Strip(s) == RStrip(LStrip(s))

RECURSIVE Concat(_)
\* the concatenation of a sequence of texts: f.writelines(ss)
Concat(ss) == IF ss = <<>> THEN <<>> ELSE Head(ss) \o Concat(Tail(ss))

RECURSIVE SplitLines(_)
\* the lines of a text, terminators kept: f.readlines()
SplitLines(s) ==
    IF s = <<>> THEN <<>>
    ELSE IF \A k \in 1..Len(s) : s[k] # "\n" THEN <<s>>
         ELSE LET k == CHOOSE j \in 1..Len(s) :
                          s[j] = "\n" /\ \A m \in 1..(j - 1) : s[m] # "\n"
              IN  <<SubSeq(s, 1, k)>> \o SplitLines(SubSeq(s, k + 1, Len(s)))

\* all sequences over S of length 1..n
RECURSIVE SeqsUpTo(_, _)
SeqsUpTo(S, n) ==
    IF n = 0 THEN {}
    ELSE LET shorter == SeqsUpTo(S, n - 1)
         IN  {<<x>> : x \in S} \cup shorter
               \cup {Append(q, x) : q \in shorter, x \in S}

-----------------------------------------------------------------------------
(* upload_file: the extension check *)

allowed_extensions == {<<".", "c", "s", "v">>,
                       <<".", "x", "l", "s", "x">>,
                       <<".", "x", "l", "s">>}

\* '.' + file.filename.split('.')[-1].lower()
FileExt(name) ==
    LET parts == Split(name, ".")
    IN  <<".">> \o Lower(parts[Len(parts)])

-----------------------------------------------------------------------------
(* create_raw_table: the table name *)

\* ''.join(c if c.isalnum() or c == '_' else '_' for c in table_name)
Sanitize(s) ==
    [k \in 1..Len(s) |-> IF IsAlnum(s[k]) \/ s[k] = "_" THEN s[k] ELSE "_"]

RawPrefix == <<"r", "a", "w", "_">>

\* the three chained replace calls of line 73
StripExtensions(s) ==
    Replace(Replace(Replace(s, <<".", "c", "s", "v">>, <<>>),
                    <<".", "x", "l", "s", "x">>, <<>>),
            <<".", "x", "l", "s">>, <<>>)

TableName(name) == RawPrefix \o Sanitize(StripExtensions(Lower(name)))

-----------------------------------------------------------------------------
(* pandas.read_csv on text without quote characters                        *)
(* A data frame is [columns |-> names, rows |-> rows of cells]; the empty  *)
(* text <<>> as a cell is a missing value (NaN).                           *)

\* the nine keyword sets of the list strategies (lines 389-404)
strategies == <<
    [encoding |-> "utf-8",   bad_lines |-> "error", header |-> "infer"],
    [encoding |-> "latin-1", bad_lines |-> "error", header |-> "infer"],
    [encoding |-> "cp1252",  bad_lines |-> "error", header |-> "infer"],
    [encoding |-> "utf-8",   bad_lines |-> "skip",  header |-> "infer"],
    [encoding |-> "latin-1", bad_lines |-> "skip",  header |-> "infer"],
    [encoding |-> "utf-8",   bad_lines |-> "skip",  header |-> "infer"],
    [encoding |-> "latin-1", bad_lines |-> "skip",  header |-> "infer"],
    [encoding |-> "utf-8",   bad_lines |-> "skip",  header |-> "infer"],
    [encoding |-> "utf-8",   bad_lines |-> "skip",  header |-> "none"] >>

\* pd.read_csv(temp_file, encoding='utf-8') of line 450
strict_utf8 == strategies[1]

\* a line without its terminator
Chomp(line) ==
    IF line # <<>> /\ line[Len(line)] = "\n"
    THEN SubSeq(line, 1, Len(line) - 1) ELSE line

\* the tokenizer: the fields of one line
Fields(line) == Split(Chomp(line), ",")

IsBlank(line) == Chomp(line) = <<>>

\* skip_blank_lines=True, the default
NonBlank(ls) == SelectSeq(ls, LAMBDA l : ~IsBlank(l))

Max(a, b) == IF a >= b THEN a ELSE b

\* the header row and the data lines the parser sees
HeaderFields(ls, kw) ==
    IF kw.header = "infer" THEN Fields(NonBlank(ls)[1]) ELSE <<>>

DataLines(ls, kw) ==
    IF kw.header = "infer" THEN Tail(NonBlank(ls)) ELSE NonBlank(ls)

\* the width the tokenizer settles on with the first data line: later lines
\* are padded up to it, and are bad lines when they have more fields
Width(ls, kw) ==
    LET h == Len(HeaderFields(ls, kw))
        d == DataLines(ls, kw)
    IN  IF d = <<>> THEN h ELSE Max(h, Len(Fields(d[1])))

\* line k of the data lines has more fields than the parser expects
IsBadLine(ls, kw, k) ==
    k > 1 /\ Len(Fields(DataLines(ls, kw)[k])) > Width(ls, kw)

HasBadLine(ls, kw) ==
    \E k \in 1..Len(DataLines(ls, kw)) : IsBadLine(ls, kw, k)

\* read_csv raises on these texts whatever else happens: nothing to parse
\* (EmptyDataError), or a bad line when bad lines are errors (ParserError)
MustRaise(ls, kw) ==
    \/ NonBlank(ls) = <<>>
    \/ kw.bad_lines = "error" /\ HasBadLine(ls, kw)

Pad(fields, w) == fields \o [k \in 1..(w - Len(fields)) |-> <<>>]

Digits == <<"0", "1", "2", "3", "4", "5", "6", "7">>

RECURSIVE GoodLines(_, _, _)
\* the data lines that are not bad lines, in order (first k of them seen)
GoodLines(ls, kw, k) ==
    IF k = 0 THEN <<>>
    ELSE LET rest == GoodLines(ls, kw, k - 1)
         IN  IF IsBadLine(ls, kw, k) THEN rest
             ELSE Append(rest, DataLines(ls, kw)[k])

\* the data frame read_csv returns when it does not raise: with a header the
\* fields in excess of the header are the leading (index) columns
ReadCsv(ls, kw) ==
    LET w    == Width(ls, kw)
        h    == IF kw.header = "infer" THEN Len(HeaderFields(ls, kw)) ELSE w
        good == GoodLines(ls, kw, Len(DataLines(ls, kw)))
    IN  [columns |-> IF kw.header = "infer" THEN HeaderFields(ls, kw)
                     ELSE [k \in 1..w |-> <<Digits[k]>>],
         rows    |-> [k \in 1..Len(good) |->
                        SubSeq(Pad(Fields(good[k]), w), w - h + 1, w)]]

\* df.empty looking at the columns only
IsEmptyColumnsOnly(d) == Len(d.columns) = 0

\* df.empty
IsEmpty(d) == Len(d.rows) = 0 \/ Len(d.columns) = 0

-----------------------------------------------------------------------------
(* upload_file: the manual line-repair path (lines 419-454) *)

\* lines[0].strip().split(',')
Header(ls) == Split(Strip(ls[1]), ",")

\* CleanLine keeping the lines with too few fields
CleanLineKeepShort(line, cols) ==
    LET parts == Split(Strip(line), ",")
    IN  IF Len(parts) <= cols THEN <<line>>
        ELSE <<Join(SubSeq(parts, 1, cols - 1)
                      \o <<Join(SubSeq(parts, cols, Len(parts)), <<",">>)>>,
                    <<",">>) \o <<"\n">>>>

\* the body of the for loop (lines 432-442): what one line adds to cleaned_lines
CleanLine(line, cols) ==
    LET parts == Split(Strip(line), ",")
    IN  IF Len(parts) = cols THEN <<line>>
        ELSE IF Len(parts) > cols
             THEN LET fixed_parts ==
                          SubSeq(parts, 1, cols - 1)
                            \o <<Join(SubSeq(parts, cols, Len(parts)), <<",">>)>>
                  IN  <<Join(fixed_parts, <<",">>) \o <<"\n">>>>
             ELSE <<>>

-----------------------------------------------------------------------------
(* pandas.read_excel: the first sheet, the first row being the header; the *)
(* sheet is given as lines of comma-separated cells                        *)

RECURSIVE MaxFieldCount(_)
MaxFieldCount(ls) ==
    IF ls = <<>> THEN 0 ELSE Max(Len(Fields(Head(ls))), MaxFieldCount(Tail(ls)))

\* a column without a header cell is named "Unnamed: k"; the name is kept short
Unnamed(k) == <<"U", Digits[k]>>

ReadExcel(ls) ==
    LET w == MaxFieldCount(ls)
        h == IF ls = <<>> THEN <<>> ELSE Fields(ls[1])
    IN  [columns |-> [k \in 1..w |->
                        IF k <= Len(h) /\ h[k] # <<>> THEN h[k] ELSE Unnamed(k - 1)],
         rows    |-> [k \in 1..(IF ls = <<>> THEN 0 ELSE Len(ls) - 1) |->
                        Pad(Fields(ls[k + 1]), w)]]

-----------------------------------------------------------------------------
(* create_raw_table: the data frame handed to the datastore (lines 77-85) *)

\* NormalizeColumn without the replace of the period
NormalizeColumnKeepPeriod(col) ==
    Replace(Replace(Lower(col), <<" ">>, <<"_">>), <<"-">>, <<"_">>)

\* str(col).lower().replace(' ', '_').replace('-', '_').replace('.', '_')
NormalizeColumn(col) ==
    Replace(Replace(Replace(Lower(col), <<" ">>, <<"_">>),
                    <<"-">>, <<"_">>),
            <<".">>, <<"_">>)

\* df.columns = [...] of line 78: the caller's frame is renamed in place
NormalizeColumns(d) ==
    [d EXCEPT !.columns = [k \in 1..Len(d.columns) |-> NormalizeColumn(d.columns[k])]]

RECURSIVE KeptColumns(_, _)
\* the positions of the columns that hold a value in some row, up to column k
KeptColumns(d, k) ==
    IF k = 0 THEN <<>>
    ELSE LET rest == KeptColumns(d, k - 1)
         IN  IF \E r \in 1..Len(d.rows) : d.rows[r][k] # <<>>
             THEN Append(rest, k) ELSE rest

\* df.dropna(axis=1, how='all')
DropEmptyColumns(d) ==
    LET keep == KeptColumns(d, Len(d.columns))
    IN  [columns |-> [k \in 1..Len(keep) |-> d.columns[keep[k]]],
         rows    |-> [r \in 1..Len(d.rows) |->
                        [k \in 1..Len(keep) |-> d.rows[r][keep[k]]]]]

-----------------------------------------------------------------------------
(* The uploads served *)

dot_csv  == <<".", "c", "s", "v">>
dot_xlsx == <<".", "x", "l", "s", "x">>
dot_txt  == <<".", "t", "x", "t">>

UploadNames ==
    { <<"a">> \o dot_csv,
      <<"a">> \o dot_xlsx,
      <<"a">> \o dot_txt,
      <<>> }

header_ab == <<"a", ",", "b", "\n">>

UploadContents ==
    { <<>>,
      <<header_ab>>,
      <<header_ab, <<"1", ",", "1", "\n">>>>,
      <<header_ab, <<"1", ",", "1", "\n">>, <<"2", ",", "\n">>>>,
      <<header_ab, <<"1", ",", "1", "\n">>, <<"1", ",", "2", ",", "3", "\n">>>>,
      <<header_ab, <<",", "\n">>>> }

\* os.path.join(UPLOAD_DIR, file.filename) and file_path + '.cleaned'
FilePath(name) == <<"upload", name>>
TempPath(name) == <<"cleaned", name>>

\* a mapping with key k set to v / without key k
Put(f, k, v) == [x \in DOMAIN f \cup {k} |-> IF x = k THEN v ELSE f[x]]
Remove(f, k) == [x \in DOMAIN f \ {k} |-> f[x]]

Empty == [x \in {} |-> None]

-----------------------------------------------------------------------------
(* State after construction: init_database has created the schemas, no     *)
(* relation exists, UPLOAD_DIR is empty, no request is being served        *)

Locals ==
    /\ file_ext = None
    /\ strat = 0
    /\ tried = <<>>
    /\ manualRan = FALSE
    /\ lines = <<>>
    /\ expected_cols = 0
    /\ cleaned_lines = <<>>
    /\ idx = 0
    /\ df = None
    /\ table_name = None
    /\ conn = "none"
    /\ response = NoResponse
    /\ events = {}

Init ==
    /\ pc = "idle"
    /\ filename = <<>>
    /\ content = <<>>
    /\ Locals
    /\ disk = Empty
    /\ tables = Empty
    /\ before = Empty
    /\ suspended = <<>>

\* the call ends with this response
Respond(r) == response' = r /\ pc' = "done"

-----------------------------------------------------------------------------
(* upload_file *)

\* a request arrives
ReceiveFrom(names, contents) ==
    /\ pc = "idle"
    /\ \E n \in names, c \in contents : filename' = n /\ content' = c
    /\ pc' = "validate"
    /\ before' = tables
    /\ UNCHANGED <<file_ext, strat, tried, manualRan, lines, expected_cols,
                   cleaned_lines, idx, df, table_name, disk, tables, conn,
                   response, events>>

Receive == ReceiveFrom(UploadNames, UploadContents)

\* Validate with the extension check made only after the body is handled
ValidateNoCheck ==
    /\ pc = "validate"
    /\ IF filename = <<>>
       THEN Respond("400 no file") /\ UNCHANGED file_ext
       ELSE file_ext' = FileExt(filename) /\ pc' = "read" /\ UNCHANGED response
    /\ UNCHANGED <<filename, content, strat, tried, manualRan, lines,
                   expected_cols, cleaned_lines, idx, df, table_name, disk,
                   tables, conn, events, before>>

\* lines 362-370: no file name, or an extension outside the allowed ones
Validate ==
    /\ pc = "validate"
    /\ IF filename = <<>>
       THEN Respond("400 no file") /\ UNCHANGED file_ext
       ELSE /\ file_ext' = FileExt(filename)
            /\ IF FileExt(filename) \notin allowed_extensions
               THEN Respond("400 unsupported format")
               ELSE pc' = "read" /\ UNCHANGED response
    /\ UNCHANGED <<filename, content, strat, tried, manualRan, lines,
                   expected_cols, cleaned_lines, idx, df, table_name, disk,
                   tables, conn, events, before>>

\* line 376: content = await file.read()
ReadBody ==
    /\ pc = "read"
    /\ events' = events \cup {"read"}
    /\ pc' = "write"
    /\ UNCHANGED <<filename, content, file_ext, strat, tried, manualRan, lines,
                   expected_cols, cleaned_lines, idx, df, table_name, disk,
                   tables, conn, response, before>>

\* lines 379-386: the bytes are written to file_path
WriteFile ==
    /\ pc = "write"
    /\ disk' = Put(disk, FilePath(filename), content)
    /\ events' = events \cup {"write"}
    /\ pc' = IF file_ext = dot_csv THEN "strategies" ELSE "excel"
    /\ UNCHANGED <<filename, content, file_ext, strat, tried, manualRan, lines,
                   expected_cols, cleaned_lines, idx, df, table_name, tables,
                   conn, response, before>>

\* TryStrategy without the break of line 411: the loop goes on after a success
TryStrategyNoBreak ==
    /\ pc = "strategies"
    /\ strat < Len(strategies)
    /\ \E raised \in BOOLEAN :
        /\ MustRaise(disk[FilePath(filename)], strategies[strat + 1]) => raised
        /\ tried' = Append(tried, <<strat + 1, raised>>)
        /\ strat' = strat + 1
        /\ df' = IF raised THEN df
                 ELSE <<ReadCsv(disk[FilePath(filename)], strategies[strat + 1])>>
        /\ pc' = IF strat + 1 < Len(strategies) THEN "strategies"
                 ELSE IF raised /\ df = None THEN "manual" ELSE "check_empty"
    /\ events' = events \cup {"parse"}
    /\ UNCHANGED <<filename, content, file_ext, manualRan, lines, expected_cols,
                   cleaned_lines, idx, table_name, disk, tables, conn, response,
                   before>>

\* lines 406-414, one iteration: pd.read_csv(file_path, **strategy) returns
\* and the loop breaks, or raises and the loop continues.  read_csv raises
\* when the text makes it (MustRaise) and may raise for reasons outside the
\* text: a keyword the installed pandas rejects, undecodable bytes, I/O
TryStrategy ==
    /\ pc = "strategies"
    /\ strat < Len(strategies)
    /\ \E raised \in BOOLEAN :
        /\ MustRaise(disk[FilePath(filename)], strategies[strat + 1]) => raised
        /\ tried' = Append(tried, <<strat + 1, raised>>)
        /\ IF raised
           THEN /\ strat' = strat + 1
                /\ pc' = IF strat + 1 = Len(strategies) THEN "manual" ELSE "strategies"
                /\ UNCHANGED df
           ELSE /\ df' = <<ReadCsv(disk[FilePath(filename)], strategies[strat + 1])>>
                /\ pc' = "check_empty"
                /\ UNCHANGED strat
    /\ events' = events \cup {"parse"}
    /\ UNCHANGED <<filename, content, file_ext, manualRan, lines, expected_cols,
                   cleaned_lines, idx, table_name, disk, tables, conn, response,
                   before>>

\* lines 419-430: the saved file is read back line by line; lines[0] of an
\* empty file raises, which line 456 turns into the malformed-file response
ManualRead ==
    /\ pc = "manual"
    /\ manualRan' = TRUE
    /\ lines' = disk[FilePath(filename)]
    /\ IF disk[FilePath(filename)] = <<>>
       THEN /\ Respond("400 malformed")
            /\ UNCHANGED <<expected_cols, cleaned_lines, idx>>
       ELSE /\ expected_cols' = Len(Header(disk[FilePath(filename)]))
            /\ cleaned_lines' = <<disk[FilePath(filename)][1]>>
            /\ idx' = 2
            /\ pc' = "manual_loop"
            /\ UNCHANGED response
    /\ UNCHANGED <<filename, content, file_ext, strat, tried, df, table_name,
                   disk, tables, conn, events, before>>

\* lines 431-442: one iteration of the loop over lines[1:]
ManualLine ==
    /\ pc = "manual_loop"
    /\ idx <= Len(lines)
    /\ cleaned_lines' = cleaned_lines \o CleanLine(lines[idx], expected_cols)
    /\ idx' = idx + 1
    /\ UNCHANGED <<pc, filename, content, file_ext, strat, tried, manualRan,
                   lines, expected_cols, df, table_name, disk, tables, conn,
                   response, events, before>>

\* lines 444-447: cleaned_lines is written to file_path + '.cleaned'
ManualWrite ==
    /\ pc = "manual_loop"
    /\ idx > Len(lines)
    /\ disk' = Put(disk, TempPath(filename), SplitLines(Concat(cleaned_lines)))
    /\ pc' = "manual_parse"
    /\ UNCHANGED <<filename, content, file_ext, strat, tried, manualRan, lines,
                   expected_cols, cleaned_lines, idx, df, table_name, tables,
                   conn, response, events, before>>

\* lines 449-458: the cleaned file is parsed and removed; when the parse
\* raises, line 456 answers with the malformed-file response
ManualParse ==
    /\ pc = "manual_parse"
    /\ \E raised \in BOOLEAN :
        /\ MustRaise(disk[TempPath(filename)], strict_utf8) => raised
        /\ IF raised
           THEN /\ Respond("400 malformed")
                /\ UNCHANGED <<df, disk>>
           ELSE /\ df' = <<ReadCsv(disk[TempPath(filename)], strict_utf8)>>
                /\ disk' = Remove(disk, TempPath(filename))
                /\ pc' = "check_empty"
                /\ UNCHANGED response
    /\ events' = events \cup {"parse"}
    /\ UNCHANGED <<filename, content, file_ext, strat, tried, manualRan, lines,
                   expected_cols, cleaned_lines, idx, table_name, tables, conn,
                   before>>

\* lines 463-468: pd.read_excel(file_path); no bytes are no workbook
ReadExcelFile ==
    /\ pc = "excel"
    /\ \E raised \in BOOLEAN :
        /\ disk[FilePath(filename)] = <<>> => raised
        /\ IF raised
           THEN Respond("400 excel") /\ UNCHANGED df
           ELSE /\ df' = <<ReadExcel(disk[FilePath(filename)])>>
                /\ pc' = "check_empty"
                /\ UNCHANGED response
    /\ events' = events \cup {"parse"}
    /\ UNCHANGED <<filename, content, file_ext, strat, tried, manualRan, lines,
                   expected_cols, cleaned_lines, idx, table_name, disk, tables,
                   conn, before>>

\* lines 480-482
CheckEmpty ==
    /\ pc = "check_empty"
    /\ IF IsEmpty(df[1])
       THEN Respond("400 empty")
       ELSE pc' = "crt_connect" /\ UNCHANGED response
    /\ UNCHANGED <<filename, content, file_ext, strat, tried, manualRan, lines,
                   expected_cols, cleaned_lines, idx, df, table_name, disk,
                   tables, conn, events, before>>

-----------------------------------------------------------------------------
(* create_raw_table, called at line 486.  Every statement on the datastore *)
(* may raise; lines 101-103 log and re-raise, lines 488-490 answer 500.    *)

\* the statement at hand raises
Raise500 ==
    /\ Respond("500 create failed")
    /\ UNCHANGED <<filename, content, file_ext, strat, tried, manualRan, lines,
                   expected_cols, cleaned_lines, idx, df, table_name, disk,
                   tables, conn, events, before>>

\* lines 70-85: connect, derive the table name, rename the columns
Connect ==
    /\ pc = "crt_connect"
    /\ \/ Raise500
       \/ /\ conn' = "open"
          /\ table_name' = TableName(filename)
          /\ df' = <<NormalizeColumns(df[1])>>
          /\ pc' = "crt_drop"
          /\ UNCHANGED <<filename, content, file_ext, strat, tried, manualRan,
                         lines, expected_cols, cleaned_lines, idx, disk, tables,
                         response, events, before>>

\* the DROP of line 88 left out: the relation is kept and CREATE adds to it
DropTableKeep ==
    /\ pc = "crt_drop"
    /\ \/ Raise500
       \/ /\ pc' = "crt_register"
          /\ events' = events \cup {"drop"}
          /\ UNCHANGED <<filename, content, file_ext, strat, tried, manualRan,
                         lines, expected_cols, cleaned_lines, idx, df,
                         table_name, disk, tables, conn, response, before>>

\* line 88: DROP TABLE IF EXISTS raw.<table_name>
DropTable ==
    /\ pc = "crt_drop"
    /\ \/ Raise500
       \/ /\ tables' = Remove(tables, table_name)
          /\ events' = events \cup {"drop"}
          /\ pc' = "crt_register"
          /\ UNCHANGED <<filename, content, file_ext, strat, tried, manualRan,
                         lines, expected_cols, cleaned_lines, idx, df,
                         table_name, disk, conn, response, before>>

\* line 91: conn.register('temp_df', df)
Register ==
    /\ pc = "crt_register"
    /\ \/ Raise500
       \/ /\ pc' = "crt_create"
          /\ UNCHANGED <<filename, content, file_ext, strat, tried, manualRan,
                         lines, expected_cols, cleaned_lines, idx, df,
                         table_name, disk, tables, conn, response, events,
                         before>>

\* line 92: CREATE TABLE raw.<table_name> AS SELECT * FROM temp_df; the
\* statement raises when the relation exists, and a frame without columns
\* (all of them dropped at line 82) is refused by then at the latest
CreateTable ==
    /\ pc = "crt_create"
    /\ \/ Raise500
       \/ /\ table_name \notin DOMAIN tables
          /\ DropEmptyColumns(df[1]).columns # <<>>
          /\ tables' = Put(tables, table_name, DropEmptyColumns(df[1]))
          /\ events' = events \cup {"create"}
          /\ pc' = "crt_count"
          /\ UNCHANGED <<filename, content, file_ext, strat, tried, manualRan,
                         lines, expected_cols, cleaned_lines, idx, df,
                         table_name, disk, conn, response, before>>

\* lines 95-96: SELECT COUNT(*) FROM raw.<table_name>
CountRows ==
    /\ pc = "crt_count"
    /\ \/ Raise500
       \/ /\ pc' = "crt_close"
          /\ UNCHANGED <<filename, content, file_ext, strat, tried, manualRan,
                         lines, expected_cols, cleaned_lines, idx, df,
                         table_name, disk, tables, conn, response, events,
                         before>>

\* lines 98-99: conn.close(); return table_name
CloseConn ==
    /\ pc = "crt_close"
    /\ conn' = "closed"
    /\ pc' = "finish"
    /\ UNCHANGED <<filename, content, file_ext, strat, tried, manualRan, lines,
                   expected_cols, cleaned_lines, idx, df, table_name, disk,
                   tables, response, events, before>>

\* lines 492-512: the staging model is written (its failure is swallowed),
\* the uploaded file is removed and the success response is returned
Finish ==
    /\ pc = "finish"
    /\ disk' = Remove(disk, FilePath(filename))
    /\ Respond("200 ok")
    /\ UNCHANGED <<filename, content, file_ext, strat, tried, manualRan, lines,
                   expected_cols, cleaned_lines, idx, df, table_name, tables,
                   conn, events, before>>

\* the response has been sent and the frame of the call is gone
Return ==
    /\ pc = "done"
    /\ pc' = "idle"
    /\ filename' = <<>> /\ content' = <<>> /\ before' = Empty
    /\ file_ext' = None /\ strat' = 0 /\ tried' = <<>> /\ manualRan' = FALSE
    /\ lines' = <<>> /\ expected_cols' = 0 /\ cleaned_lines' = <<>> /\ idx' = 0
    /\ df' = None /\ table_name' = None /\ conn' = "none" /\ response' = NoResponse
    /\ events' = {}
    /\ UNCHANGED <<disk, tables>>

\* one handler at a time: no call is suspended
Next ==
    /\ UNCHANGED suspended
    /\ \/ Receive
       \/ Validate
       \/ ReadBody
       \/ WriteFile
       \/ TryStrategy
       \/ ManualRead
       \/ ManualLine
       \/ ManualWrite
       \/ ManualParse
       \/ ReadExcelFile
       \/ CheckEmpty
       \/ Connect
       \/ DropTable
       \/ Register
       \/ CreateTable
       \/ CountRows
       \/ CloseConn
       \/ Finish
       \/ Return

Spec == Init /\ [][Next]_vars

-----------------------------------------------------------------------------
(* The extension check and the table name, over many file names *)

NameTokens ==
    { <<"a">>, <<"B">>, <<".">>, <<"-">>, <<"c", "s", "v">>,
      dot_csv, dot_xlsx, <<".", "x", "l", "s">>, dot_txt,
      <<".", "C", "S", "V">> }

Names == {Concat(q) : q \in SeqsUpTo(NameTokens, MaxNameParts)}

InitName ==
    /\ pc = "validate"
    /\ filename \in Names
    /\ content = <<header_ab>>
    /\ Locals
    /\ disk = Empty
    /\ tables = Empty
    /\ before = Empty
    /\ suspended = <<>>

\* line 73-75 for a file name that passed the extension check
DeriveTableName ==
    /\ pc = "read"
    /\ table_name' = TableName(filename)
    /\ pc' = "named"
    /\ UNCHANGED <<filename, content, file_ext, strat, tried, manualRan, lines,
                   expected_cols, cleaned_lines, idx, df, disk, tables, conn,
                   response, events, before>>

NextName == (Validate \/ DeriveTableName) /\ UNCHANGED suspended

SpecName == InitName /\ [][NextName]_vars

-----------------------------------------------------------------------------
(* The manual line-repair path, over many files: the handler has saved the *)
(* file and all nine strategies have raised                                *)

ColumnNames == <<"a", "b", "c", "x", "l", "s", "v">>

HeaderWidths == {1, 2, 3}

HeaderLine(n) == Join([k \in 1..n |-> <<ColumnNames[k]>>], <<",">>) \o <<"\n">>

\* the data line 1,2,...,k and the blank line
NumberedLine(k) == Join([j \in 1..k |-> <<Digits[j + 1]>>], <<",">>) \o <<"\n">>

RepairLines == {NumberedLine(k) : k \in 1..MaxFields} \cup {<<"\n">>}

\* a text with or without the terminator of its last line
Endings(ls) ==
    {ls, SplitLines(Concat([k \in 1..Len(ls) |->
                              IF k = Len(ls) THEN Chomp(ls[k]) ELSE ls[k]]))}

RepairContents ==
    UNION { Endings(<<HeaderLine(n)>> \o d) :
              n \in HeaderWidths,
              d \in {<<>>} \cup SeqsUpTo(RepairLines, MaxDataLines) }

InitRepair ==
    /\ pc = "manual"
    /\ filename = <<"a">> \o dot_csv
    /\ content \in RepairContents
    /\ disk = Put(Empty, FilePath(filename), content)
    /\ file_ext = dot_csv
    /\ strat = Len(strategies)
    /\ tried = [k \in 1..Len(strategies) |-> <<k, TRUE>>]
    /\ manualRan = FALSE
    /\ lines = <<>>
    /\ expected_cols = 0
    /\ cleaned_lines = <<>>
    /\ idx = 0
    /\ df = None
    /\ table_name = None
    /\ conn = "none"
    /\ response = NoResponse
    /\ events = {"read", "write", "parse"}
    /\ tables = Empty
    /\ before = Empty
    /\ suspended = <<>>

NextRepair ==
    (ManualRead \/ ManualLine \/ ManualWrite \/ ManualParse) /\ UNCHANGED suspended

SpecRepair == InitRepair /\ [][NextRepair]_vars

-----------------------------------------------------------------------------
(* The column names, over many headers: strategy 1 has parsed the saved    *)
(* file, whose header holds one column or two distinct columns             *)

\* column names are concatenations of at most MaxColumnParts tokens
MaxColumnParts == 3

first_name_src == <<"F", "i", "r", "s", "t", " ", "N", "a", "m", "e">>
revenue_src == <<"R", "e", "v", "e", "n", "u", "e", "-", "2", "0", "2", "3">>

ColumnTokens ==
    { <<"F", "i", "r", "s", "t">>, <<"N", "a", "m", "e">>,
      <<"R", "e", "v", "e", "n", "u", "e">>, <<"2", "0", "2", "3">>,
      <<" ">>, <<"-">>, <<".">>, <<"_">>, <<"A">>, <<"a">>, <<"b">> }

PairTokens == { <<"A">>, <<"a">>, <<" ", "b">>, <<"-", "b">> }

SingleColumns == {Concat(q) : q \in SeqsUpTo(ColumnTokens, MaxColumnParts)}

PairColumns == {Concat(q) : q \in SeqsUpTo(PairTokens, MaxColumnParts)}

Headers ==
    {<<c>> : c \in SingleColumns}
      \cup {h \in PairColumns \X PairColumns : h[1] # h[2]}

\* a file with the header h and one data line with a value in every column
ColumnsContent(h) ==
    << Join(h, <<",">>) \o <<"\n">>,
       Join([k \in 1..Len(h) |-> <<"1">>], <<",">>) \o <<"\n">> >>

InitCols ==
    /\ pc = "check_empty"
    /\ filename = <<"a">> \o dot_csv
    /\ content \in {ColumnsContent(h) : h \in Headers}
    /\ disk = Put(Empty, FilePath(filename), content)
    /\ file_ext = dot_csv
    /\ strat = 0
    /\ tried = << <<1, FALSE>> >>
    /\ manualRan = FALSE
    /\ lines = <<>>
    /\ expected_cols = 0
    /\ cleaned_lines = <<>>
    /\ idx = 0
    /\ df = <<ReadCsv(content, strategies[1])>>
    /\ table_name = None
    /\ conn = "none"
    /\ response = NoResponse
    /\ events = {"read", "write", "parse"}
    /\ tables = Empty
    /\ before = Empty
    /\ suspended = <<>>

NextCols == (CheckEmpty \/ Connect) /\ UNCHANGED suspended

SpecCols == InitCols /\ [][NextCols]_vars

-----------------------------------------------------------------------------
(* Concurrent uploads: the handlers are coroutines of one event loop.  A   *)
(* handler runs until it awaits; only then may the loop start or resume    *)
(* another handler.  The frame of a waiting handler holds its locals.      *)

\* at most MaxSuspended handlers wait while another one runs
MaxSuspended == 1

ConcNames == { <<"a">> \o dot_csv, <<"a">> \o dot_xlsx }

ConcContents ==
    { <<header_ab, <<"1", ",", "1", "\n">>>>,
      <<header_ab, <<"1", ",", "1", "\n">>, <<"2", ",", "\n">>>> }

\* a suspension point after the write as well: an await in the parse step
SuspensionPointsAfterWrite == {"read", "strategies", "excel"}

\* the positions of upload_file at which the handler awaits: line 376 only
SuspensionPoints == {"read"}

\* the locals of the running handler
Frame ==
    [pc |-> pc, filename |-> filename, content |-> content,
     file_ext |-> file_ext, strat |-> strat, tried |-> tried,
     manualRan |-> manualRan, lines |-> lines,
     expected_cols |-> expected_cols, cleaned_lines |-> cleaned_lines,
     idx |-> idx, df |-> df, table_name |-> table_name, conn |-> conn,
     response |-> response, events |-> events, before |-> before]

ReceiveConc == ReceiveFrom(ConcNames, ConcContents)

\* the running handler awaits and the event loop is free for another one
Suspend ==
    /\ pc \in SuspensionPoints
    /\ Len(suspended) < MaxSuspended
    /\ suspended' = Append(suspended, Frame)
    /\ pc' = "idle"
    /\ filename' = <<>> /\ content' = <<>> /\ before' = Empty
    /\ file_ext' = None /\ strat' = 0 /\ tried' = <<>> /\ manualRan' = FALSE
    /\ lines' = <<>> /\ expected_cols' = 0 /\ cleaned_lines' = <<>> /\ idx' = 0
    /\ df' = None /\ table_name' = None /\ conn' = "none"
    /\ response' = NoResponse /\ events' = {}
    /\ UNCHANGED <<disk, tables>>

\* the event loop, free, resumes a waiting handler where it stopped
Resume ==
    /\ pc = "idle"
    /\ \E k \in 1..Len(suspended) :
        LET f == suspended[k]
        IN  /\ suspended' = SubSeq(suspended, 1, k - 1)
                              \o SubSeq(suspended, k + 1, Len(suspended))
            /\ pc' = f.pc /\ filename' = f.filename /\ content' = f.content
            /\ file_ext' = f.file_ext /\ strat' = f.strat /\ tried' = f.tried
            /\ manualRan' = f.manualRan /\ lines' = f.lines
            /\ expected_cols' = f.expected_cols
            /\ cleaned_lines' = f.cleaned_lines /\ idx' = f.idx /\ df' = f.df
            /\ table_name' = f.table_name /\ conn' = f.conn
            /\ response' = f.response /\ events' = f.events
            /\ before' = f.before
    /\ UNCHANGED <<disk, tables>>

\* a step of the running handler
Run ==
    /\ UNCHANGED suspended
    /\ \/ ReceiveConc
       \/ Validate
       \/ ReadBody
       \/ WriteFile
       \/ TryStrategy
       \/ ManualRead
       \/ ManualLine
       \/ ManualWrite
       \/ ManualParse
       \/ ReadExcelFile
       \/ CheckEmpty
       \/ Connect
       \/ DropTable
       \/ Register
       \/ CreateTable
       \/ CountRows
       \/ CloseConn
       \/ Finish
       \/ Return

NextConc == Run \/ Suspend \/ Resume

SpecConc == Init /\ [][NextConc]_vars

-----------------------------------------------------------------------------
(* Properties *)

Raised(k) == tried[k][2]

AllRaised == \A k \in 1..Len(tried) : Raised(k)

\* C1: the nine strategies run in list order, each at most once; strategy k
\* runs if and only if strategies 1..k-1 all raised, so nothing runs after a
\* strategy that completed; the manual path runs if and only if all nine
\* raised.
C1_StrategiesInOrder ==
    /\ Len(tried) <= Len(strategies)
    /\ \A k \in 1..Len(tried) : tried[k][1] = k
    /\ \A k \in 1..Len(tried) : k < Len(tried) => Raised(k)
    /\ (file_ext = dot_csv /\ pc \notin {"idle", "validate", "read", "write", "strategies"})
         => /\ Len(tried) >= 1
            /\ Raised(Len(tried)) => Len(tried) = Len(strategies)
    /\ manualRan => Len(tried) = Len(strategies) /\ AllRaised
    /\ (Len(tried) = Len(strategies) /\ AllRaised /\ pc \notin {"strategies", "manual"})
         => manualRan

\* strategies 1-3 raised on a bad line and strategy 4 completed, ending the loop
C1_Witness ==
    /\ Len(tried) = 4
    /\ ~Raised(4)
    /\ pc = "done"
    /\ HasBadLine(content, strategies[1])

Identity == TableName(filename)

SameRelation(t, a, b) ==
    /\ t \in DOMAIN a <=> t \in DOMAIN b
    /\ t \in DOMAIN a => a[t] = b[t]

\* C2: after an upload call that ends in a failure, raw.<identity> is either
\* fully replaced by the new dataset or exactly as it was before the call; a
\* failure after the DROP never leaves an existing relation missing.
C2_FailureLeavesRelation ==
    (pc = "done" /\ response # "200 ok" /\ filename # <<>>)
      => \/ SameRelation(Identity, tables, before)
         \/ /\ df # None
            /\ Identity \in DOMAIN tables
            /\ tables[Identity] = DropEmptyColumns(df[1])

\* C3: re-uploading a file whose identity exists replaces the old contents
\* and never appends: the old relation is gone when CREATE runs, and after a
\* successful upload raw.<identity> holds exactly the rows of that upload.
C3_UploadReplaces ==
    /\ pc = "crt_create" => table_name \notin DOMAIN tables
    /\ (pc = "done" /\ response = "200 ok")
         => /\ Identity \in DOMAIN tables
            /\ tables[Identity] = DropEmptyColumns(df[1])
            /\ Len(tables[Identity].rows) = Len(df[1].rows)
            /\ \A t \in (DOMAIN tables \cup DOMAIN before) \ {Identity} :
                   SameRelation(t, tables, before)

\* a successful re-upload over a relation that held two rows leaves one row
C3_Witness ==
    /\ pc = "done" /\ response = "200 ok"
    /\ Identity \in DOMAIN before
    /\ Len(before[Identity].rows) = 2
    /\ Len(tables[Identity].rows) = 1

\* the name ends in one of the allowed extensions, whatever the case
HasAllowedSuffix(name) == \E e \in allowed_extensions : EndsWith(Lower(name), e)

HasDot(name) == \E k \in 1..Len(name) : name[k] = "."

\* C4: an upload whose extension is outside {csv, xlsx, xls} fails with the
\* unsupported-format error before the content is read: nothing is read,
\* written, parsed, dropped or created on that path.
C4_UnsupportedBeforeRead ==
    (pc \notin {"idle", "validate"} /\ HasDot(filename) /\ ~HasAllowedSuffix(filename))
      => /\ pc = "done"
         /\ response = "400 unsupported format"
         /\ events = {}
         /\ FilePath(filename) \notin DOMAIN disk
         /\ tables = before
         /\ tried = <<>> /\ ~manualRan /\ conn = "none"

C4_Witness ==
    /\ pc = "done"
    /\ response = "400 unsupported format"
    /\ filename = <<"a">> \o dot_txt

\* C5: the format detector fails with UnsupportedFormat for every file name
\* without a '.', the names "csv", "xlsx" and "xls" included; a file is
\* accepted only when its name ends in '.csv', '.xlsx' or '.xls'.
C5_NoExtensionRejected ==
    /\ (pc # "validate" /\ ~HasDot(filename))
         => response = "400 unsupported format"
    /\ (pc # "validate" /\ response # "400 unsupported format")
         => HasAllowedSuffix(filename)

\* C6: a CSV that parses to zero data rows fails with the empty-dataset
\* error before the persistence step: no connection is opened and no
\* relation is dropped or created.
C6_EmptyBeforePersistence ==
    (file_ext = dot_csv /\ df # None /\ pc # "check_empty" /\ Len(df[1].rows) = 0)
      => /\ pc = "done"
         /\ response = "400 empty"
         /\ conn = "none"
         /\ events \cap {"drop", "create"} = {}
         /\ tables = before

\* a header-only CSV answered with the empty-dataset error
C6_Witness ==
    /\ pc = "done"
    /\ response = "400 empty"
    /\ file_ext = dot_csv
    /\ content = <<header_ab>>

\* the fields of a line as the repair loop counts them
Parts(line) == Split(Strip(line), ",")

IsShort(line) == Len(Parts(line)) < expected_cols
IsLong(line) == Len(Parts(line)) > expected_cols

\* the loop has just handled lines[idx - 1]
JustHandled == pc = "manual_loop" /\ idx > 2

\* C7: a data line with more than expected_cols fields is rewritten so that
\* the reconstructed line, parsed as CSV, has exactly expected_cols fields,
\* the last one being the excess fields rejoined with commas.
C7_ExcessFieldsMerged ==
    (JustHandled /\ IsLong(lines[idx - 1]))
      => LET out == Fields(cleaned_lines[Len(cleaned_lines)])
             parts == Parts(lines[idx - 1])
         IN  /\ Len(out) = expected_cols
             /\ out[Len(out)] = Join(SubSeq(parts, expected_cols, Len(parts)), <<",">>)

\* the repair loop is over
Repaired == manualRan /\ pc \in {"manual_parse", "check_empty"}

DataLineIdx == 2..Len(lines)

ShortIdx == {j \in DataLineIdx : IsShort(lines[j])}

\* the positions of the data lines that are not short, in order
KeptIdx == SelectSeq([j \in 1..(Len(lines) - 1) |-> j + 1],
                     LAMBDA j : ~IsShort(lines[j]))

StripFinalExtension(s) ==
    IF \E e \in allowed_extensions : EndsWith(s, e)
    THEN LET e == CHOOSE x \in allowed_extensions : EndsWith(s, x)
         IN  SubSeq(s, 1, Len(s) - Len(e))
    ELSE s

\* C9: the table identity is "raw_" followed by the lower-cased file name
\* with only its final extension stripped and every character other than
\* alphanumerics and underscore replaced by underscore.
C9_IdentityStripsOnlyExtension ==
    table_name # None
      => table_name = RawPrefix \o Sanitize(StripFinalExtension(Lower(filename)))

\* C10: the connection an upload opens is closed before the call returns,
\* on the success path and on every path where a statement raises.
C10_ConnectionClosed ==
    pc = "done" => conn # "open"

\* the column names of the file as the parser read them
SourceColumns == HeaderFields(content, strategies[1])

\* create_raw_table has renamed the columns of the frame
Renamed == pc = "crt_drop"

\* the frame handed to the datastore
Persisted == DropEmptyColumns(df[1])

Distinct(q) == \A i, j \in 1..Len(q) : i # j => q[i] # q[j]

\* C11: the column names of the dataset handed to persistence are pairwise
\* distinct after normalization whenever the source column names are
\* pairwise distinct.
C11_ColumnsDistinct ==
    (Renamed /\ Distinct(SourceColumns)) => Distinct(Persisted.columns)

\* one character of a column name, as the normalization is specified
NormalChar(c) == IF c \in {" ", "-", "."} THEN "_" ELSE LowerChar(c)

\* C12: normalization maps every column name to its lower-cased form with
\* each space, hyphen and period replaced by an underscore and every other
\* character unchanged.
C12_ColumnsNormalized ==
    Renamed
      => /\ Len(df[1].columns) = Len(SourceColumns)
         /\ \A k \in 1..Len(SourceColumns) :
              /\ Len(df[1].columns[k]) = Len(SourceColumns[k])
              /\ \A m \in 1..Len(SourceColumns[k]) :
                   df[1].columns[k][m] = NormalChar(SourceColumns[k][m])

\* "First Name" has become first_name
C12_Witness ==
    /\ Renamed
    /\ SourceColumns = <<first_name_src>>
    /\ df[1].columns =
         << <<"f", "i", "r", "s", "t", "_", "n", "a", "m", "e">> >>

\* C14: after an upload call has returned, with success or with a failure
\* raised after the file was written, neither the saved copy of the upload
\* nor its '.cleaned' temporary file remains in the upload directory.
C14_NoFilesLeft ==
    (pc = "done" /\ "write" \in events)
      => /\ FilePath(filename) \notin DOMAIN disk
         /\ TempPath(filename) \notin DOMAIN disk

\* the handler is parsing the file it saved
Parsing == pc \in {"strategies", "excel", "manual", "manual_loop", "manual_parse"}

\* C13: the only await of an upload handler is the read of the request
\* body, before the write; so for any interleaving of two concurrent
\* uploads, also of the same file name, a handler parses exactly the bytes
\* it wrote itself, and no other handler is between its write and its
\* response while one parses.
C13_NoSuspensionAfterWrite ==
    /\ \A k \in 1..Len(suspended) :
         /\ suspended[k].pc = "read"
         /\ "write" \notin suspended[k].events
    /\ Parsing
         => /\ FilePath(filename) \in DOMAIN disk
            /\ disk[FilePath(filename)] = content
    /\ pc = "manual_loop" => lines = content

\* a handler that waited at its read while another upload for the same
\* relation, with other bytes, was saved, parsed and persisted, now parses
\* the bytes it wrote itself
C13_Witness ==
    /\ pc = "strategies"
    /\ before = Empty
    /\ TableName(filename) \in DOMAIN tables
    /\ Len(tables[TableName(filename)].rows) # Len(content) - 1
    /\ disk[FilePath(filename)] = content

====
